---- MODULE Spec2Model ----
(***************************************************************************)
(* Routing and dispatch pipeline of the multi-agent application:           *)
(* app.index (POST) drives multi_agent_autogen.run_pipeline once per       *)
(* uploaded file and aggregates the per-file results.                      *)
(*                                                                         *)
(* Text is a sequence of one-character strings, so that strip(), lower(),  *)
(* substring tests and concatenation are computed as Python computes them. *)
(* A fixed literal of the program may appear as one multi-character        *)
(* element; such an element never starts or ends with whitespace.          *)
(***************************************************************************)
EXTENDS Integers, Sequences, FiniteSets, TLC

(* ------------------------------------------------------------------ *)
(* Bounds of the model                                                 *)
(* ------------------------------------------------------------------ *)
MaxFiles == 2

(* ------------------------------------------------------------------ *)
(* Python string primitives                                            *)
(* ------------------------------------------------------------------ *)
Whitespace == {" ", "\n", "\t", "\r"}

UpperChars == <<"A","B","C","D","E","F","G","H","I","J","K","L","M",
                "N","O","P","Q","R","S","T","U","V","W","X","Y","Z">>

LowerChars == <<"a","b","c","d","e","f","g","h","i","j","k","l","m",
                "n","o","p","q","r","s","t","u","v","w","x","y","z">>

Digits == {"0","1","2","3","4","5","6","7","8","9"}

Range(s) == {s[i] : i \in 1..Len(s)}

LowerChar(c) ==
    IF \E i \in 1..Len(UpperChars) : UpperChars[i] = c
    THEN LowerChars[CHOOSE i \in 1..Len(UpperChars) : UpperChars[i] = c]
    ELSE c

\* str.lower()
Lower(s) == [i \in 1..Len(s) |-> LowerChar(s[i])]

\* str.strip()
Strip(s) ==
    LET keep == {i \in 1..Len(s) : s[i] \notin Whitespace}
    IN  IF keep = {} THEN <<>>
        ELSE LET lo == CHOOSE i \in keep : \A j \in keep : i <= j
                 hi == CHOOSE i \in keep : \A j \in keep : j <= i
             IN  SubSeq(s, lo, hi)

\* w in s
Contains(s, w) ==
    \E i \in 0..(Len(s) - Len(w)) : SubSeq(s, i + 1, i + Len(w)) = w

\* str.replace(chr(10), ' ')
ReplaceNewline(s) == [i \in 1..Len(s) |-> IF s[i] = "\n" THEN " " ELSE s[i]]

\* str.isidentifier() over ASCII
IsIdentifier(s) ==
    /\ Len(s) > 0
    /\ s[1] \in Range(UpperChars) \cup Range(LowerChars) \cup {"_"}
    /\ \A i \in 1..Len(s) :
          s[i] \in Range(UpperChars) \cup Range(LowerChars) \cup Digits \cup {"_"}

RECURSIVE Flatten(_)
Flatten(ss) == IF ss = <<>> THEN <<>> ELSE Head(ss) \o Flatten(Tail(ss))

\* sep.join(parts)
Join(sep, parts) ==
    Flatten([i \in 1..Len(parts) |->
                IF i = 1 THEN parts[i] ELSE sep \o parts[i]])

(* ------------------------------------------------------------------ *)
(* Python values that flow through the result dictionaries             *)
(* ------------------------------------------------------------------ *)
StrVal(s) == [t |-> "str", s |-> s]

\* a dict as the ordered sequence of its <<key, value>> items
DictVal(items) == [t |-> "dict", d |-> items]

NoneVal == [t |-> "none"]

\* str(v) of a string value (the f-string conversion of app.index)
PyStr(v) == v.s

\* utils.utility.format_output
format_output(output) ==
    IF output.t = "dict"
    THEN StrVal(Join(<<"\n">>,
             [i \in 1..Len(output.d) |->
                 output.d[i][1] \o <<":", " ">> \o output.d[i][2]]))
    ELSE output

(* ------------------------------------------------------------------ *)
(* Program constants                                                   *)
(* ------------------------------------------------------------------ *)
\* multi_agent_autogen.AVAILABLE_MODELS, by model key
AVAILABLE_MODELS ==
    [k \in {"gpt-4.1-mini"} |->
        [model |-> "gpt-4.1-mini", api_type |-> "azure", max_tokens |-> 1000]]

\* app.ALLOWED_EXTENSIONS
ALLOWED_EXTENSIONS ==
    { <<"p","d","f">>, <<"p","n","g">>, <<"j","p","g">>, <<"j","p","e","g">>, <<"t","i","f","f">>, <<"b","m","p">>, <<"d","o","c","x">> }

SupervisorName == <<"S","u","p","e","r","v","i","s","o","r">>

SystemName == <<"S","y","s","t","e","m">>

SummaryAgentName == <<"S","u","m","m","a","r","y","A","g","e","n","t">>

DocQAName == <<"D","o","c","Q","A">>

\* the vocabularies of detect_document_type_from_prompt
invoice_words ==
    { <<"i","n","v","o","i","c","e">>,
      <<"v","e","n","d","o","r">>,
      <<"i","n","v","o","i","c","e"," ","n","u","m","b","e","r">>,
      <<"i","n","v","o","i","c","e"," ","i","d">>,
      <<"b","i","l","l","i","n","g">>,
      <<"a","m","o","u","n","t"," ","d","u","e">>,
      <<"t","a","x">> }

receipt_words ==
    { <<"r","e","c","e","i","p","t">>,
      <<"m","e","r","c","h","a","n","t">>,
      <<"t","i","p">>,
      <<"s","u","b","t","o","t","a","l">>,
      <<"t","o","t","a","l"," ","t","a","x">> }

\* the words run_pipeline looks for when no file bytes are present
no_file_words ==
    { <<"i","n","v","o","i","c","e">>,
      <<"r","e","c","e","i","p","t">>,
      <<"d","o","c","u","m","e","n","t">>,
      <<"e","x","t","r","a","c","t">>,
      <<"s","u","m","m","a","r","i","z","e">>,
      <<"t","a","x">> }

confirm_words == { <<"y","e","s">>, <<"y">> }

EndedChatText == <<"You have ended the chat.">>

EnterTaskText == <<"Please enter a task.">>

ProvideTaskText == <<"Please provide a task.">>

UnsupportedText == <<"Unsupported file type.">>

NoDocumentText == <<"No document found.">>

\* the confirmation prompt ends with a blank
ConfirmPromptText ==
    <<"This looks like a general document. Do you want me to extract data from it?", " ">>

\* str(e) of a failed collaborator call
CollaboratorError == <<"service unavailable">>

(* ------------------------------------------------------------------ *)
(* Pure functions of the program                                       *)
(* ------------------------------------------------------------------ *)
\* dict.get(key, default) on a store entity
Get(ent, key, default) == IF key \in DOMAIN ent THEN ent[key] ELSE default

\* app.is_allowed_file
is_allowed_file(filename) ==
    IF "." \notin Range(filename) THEN FALSE
    ELSE LET dot == CHOOSE i \in 1..Len(filename) :
                        /\ filename[i] = "."
                        /\ \A j \in (i + 1)..Len(filename) : filename[j] # "."
             ext == Lower(SubSeq(filename, dot + 1, Len(filename)))
         IN  ext \in ALLOWED_EXTENSIONS

\* detect_document_type_from_prompt, mutated: the receipt check comes first
detect_document_type_ReceiptFirst(prompt) ==
    LET p == Lower(prompt)
    IN  IF \E w \in receipt_words : Contains(p, w) THEN "receipt"
        ELSE IF \E w \in invoice_words : Contains(p, w) THEN "invoice"
        ELSE "general"

\* multi_agent_autogen.detect_document_type_from_prompt
detect_document_type_from_prompt(prompt) ==
    LET p == Lower(prompt)
    IN  IF \E w \in invoice_words : Contains(p, w) THEN "invoice"
        ELSE IF \E w \in receipt_words : Contains(p, w) THEN "receipt"
        ELSE "general"

\* multi_agent_autogen.build_llm_config: AVAILABLE_MODELS[model_key] raises
\* KeyError for a key that is not in the registry
ModelResolves(model_key) == model_key \in DOMAIN AVAILABLE_MODELS

build_llm_config(model_key) ==
    LET info == AVAILABLE_MODELS[model_key]
    IN  [model |-> info.model, api_type |-> info.api_type,
         max_tokens |-> info.max_tokens]

\* agents[name] = {...} on an insertion-ordered dict kept as a sequence
DictSet(agents, meta) ==
    IF \E i \in 1..Len(agents) : agents[i].name = meta.name
    THEN LET i == CHOOSE j \in 1..Len(agents) : agents[j].name = meta.name
         IN  [agents EXCEPT ![i] = meta]
    ELSE Append(agents, meta)

\* multi_agent_autogen.load_agents_from_db over table_client.list_entities()
RECURSIVE LoadEntities(_, _)
LoadEntities(entities, agents) ==
    IF entities = <<>> THEN agents
    ELSE LET ent  == Head(entities)
             name == Strip(ent.RowKey)
         IN  IF Get(ent, "PartitionKey", "") # "agents"
             THEN LoadEntities(Tail(entities), agents)
             ELSE IF ~IsIdentifier(name)
             THEN LoadEntities(Tail(entities), agents)
             ELSE LoadEntities(Tail(entities),
                      DictSet(agents,
                          [name       |-> name,
                           prompt     |-> Get(ent, "prompt", <<>>),
                           model      |-> Get(ent, "model", "gpt-4.1-mini"),
                           agent_type |-> Get(ent, "agent_type", "llm")]))

load_agents_from_db(table_client) == LoadEntities(table_client, <<>>)

HasAgent(agents_meta, name) ==
    \E i \in 1..Len(agents_meta) : agents_meta[i].name = name

\* agents_meta[name]
AgentOf(agents_meta, name) ==
    agents_meta[CHOOSE i \in 1..Len(agents_meta) : agents_meta[i].name = name]

\* repr() of a string key, as str(KeyError(key)) shows it
KeyErrorText(key) == <<"'">> \o key \o <<"'">>

(* ------------------------------------------------------------------ *)
(* multi_agent_autogen.run_pipeline                                    *)
(*                                                                     *)
(* env is what the collaborators do during one call: env.fail is the   *)
(* position of the collaborator call that raises (0: none), env.reply  *)
(* the Supervisor's raw reply, env.out the reply of the executing      *)
(* model.  The outcome records the returned dictionary or the raised   *)
(* exception, the collaborator calls made, and the router's locals.    *)
(* ------------------------------------------------------------------ *)
Call(op, who) == [op |-> op, who |-> who]

\* the locals of the router part of run_pipeline, as far as it got:
\* "document" (the router was not entered), "listing", "loaded", "asking",
\* "selected", "executing", "executed"
Locals(stage, agents_meta, agent_catalog, selected_agent) ==
    [stage |-> stage, agents_meta |-> agents_meta,
     agent_catalog |-> agent_catalog, selected_agent |-> selected_agent]

NoLocals == Locals("document", <<>>, <<>>, <<>>)

Returned(result, calls, loc) ==
    [raised |-> FALSE, exc |-> <<>>, result |-> result, calls |-> calls,
     loc |-> loc]

Raised(exc, calls, loc) ==
    [raised |-> TRUE, exc |-> exc, result |-> NoneVal, calls |-> calls,
     loc |-> loc]

\* run_form_recognizer, then the DocQA agent (invoice / receipt)
DocQAFlow(task, file_bytes, model_id, env) ==
    LET c1 == <<Call("extract", <<model_id>>)>>
        c2 == Append(c1, Call("generate", DocQAName))
    IN  IF env.fail = 1 THEN Raised(CollaboratorError, c1, NoLocals)
        ELSE IF env.fail = 2 THEN Raised(CollaboratorError, c2, NoLocals)
        ELSE Returned([status |-> "success", agent |-> DocQAName,
                       output |-> env.out],
                      c2, NoLocals)

\* the general-document branch, mutated: the reply is compared as typed,
\* without strip() and lower()
GeneralFlow_CaseSensitive(task, file_bytes, filename, env) ==
    IF task \in confirm_words
    THEN LET c1 == <<Call("extract_text", filename)>>
             c2 == Append(c1, Call("generate", SummaryAgentName))
         IN  IF env.fail = 1 THEN Raised(CollaboratorError, c1, NoLocals)
             ELSE IF env.fail = 2 THEN Raised(CollaboratorError, c2, NoLocals)
             ELSE Returned([status |-> "success", agent |-> SummaryAgentName,
                            output |-> env.out],
                           c2, NoLocals)
    ELSE Returned([status |-> "success", agent |-> SystemName,
                   output |-> StrVal(ConfirmPromptText),
                   needs_confirmation |-> TRUE],
                  <<>>, NoLocals)

\* the general-document branch: confirmation, or extraction and summary
GeneralFlow(task, file_bytes, filename, env) ==
    IF Lower(Strip(task)) \in confirm_words
    THEN LET c1 == <<Call("extract_text", filename)>>
             c2 == Append(c1, Call("generate", SummaryAgentName))
         IN  IF env.fail = 1 THEN Raised(CollaboratorError, c1, NoLocals)
             ELSE IF env.fail = 2 THEN Raised(CollaboratorError, c2, NoLocals)
             ELSE Returned([status |-> "success", agent |-> SummaryAgentName,
                            output |-> env.out],
                           c2, NoLocals)
    ELSE Returned([status |-> "success", agent |-> SystemName,
                   output |-> StrVal(ConfirmPromptText),
                   needs_confirmation |-> TRUE],
                  <<>>, NoLocals)

DocumentFlow(task, file_bytes, filename, env) ==
    LET doc_intent == detect_document_type_from_prompt(task)
    IN  IF doc_intent = "invoice"
        THEN DocQAFlow(task, file_bytes, "prebuilt-invoice", env)
        ELSE IF doc_intent = "receipt"
        THEN DocQAFlow(task, file_bytes, "prebuilt-receipt", env)
        ELSE GeneralFlow(task, file_bytes, filename, env)

\* one line of the listing of handlers sent to the Supervisor
CatalogLine(m) ==
    <<"-", " ">> \o m.name \o <<":", " ">> \o ReplaceNewline(m.prompt)

\* agent_catalog, before the join
BuildCatalog(agents_meta) ==
    LET others == SelectSeq(agents_meta, LAMBDA m : m.name # SupervisorName)
    IN  [i \in 1..Len(others) |-> CatalogLine(others[i])]

\* the selected agent is executed on the task
ExecuteFlow(task, agents_meta, agent_catalog, selected_agent, c2, env) ==
    LET agent_meta == AgentOf(agents_meta, selected_agent)
        c3  == Append(c2, Call("generate", agent_meta.name))
    IN  IF ~ModelResolves(agent_meta.model)
        THEN Raised(KeyErrorText(<<agent_meta.model>>), c2,
                    Locals("selected", agents_meta, agent_catalog, selected_agent))
        ELSE IF env.fail = 3
        THEN Raised(CollaboratorError, c3,
                    Locals("executing", agents_meta, agent_catalog, selected_agent))
        ELSE Returned([status |-> "success", agent |-> selected_agent,
                       output |-> format_output(env.out)],
                      c3,
                      Locals("executed", agents_meta, agent_catalog, selected_agent))

\* the Supervisor is asked and its reply is looked up
SelectFlow(task, agents_meta, c1, env) ==
    LET agent_catalog  == BuildCatalog(agents_meta)
        c2             == Append(c1, Call("generate", SupervisorName))
        selected_agent == Strip(env.reply)
    IN  IF env.fail = 2
        THEN Raised(CollaboratorError, c2,
                    Locals("asking", agents_meta, agent_catalog, <<>>))
        ELSE IF ~HasAgent(agents_meta, selected_agent)
        THEN Raised(KeyErrorText(selected_agent), c2,
                    Locals("selected", agents_meta, agent_catalog, selected_agent))
        ELSE ExecuteFlow(task, agents_meta, agent_catalog, selected_agent, c2, env)

\* the flow after the document branch: load, Supervisor, selected agent
RouterFlow(task, table_client, env) ==
    LET c1          == <<Call("list_handlers", <<>>)>>
        agents_meta == load_agents_from_db(table_client)
    IN  IF env.fail = 1
        THEN Raised(CollaboratorError, c1, Locals("listing", <<>>, <<>>, <<>>))
        ELSE IF ~HasAgent(agents_meta, SupervisorName)
        THEN Raised(KeyErrorText(SupervisorName), c1,
                    Locals("loaded", agents_meta, <<>>, <<>>))
        ELSE IF ~ModelResolves(AgentOf(agents_meta, SupervisorName).model)
        THEN Raised(KeyErrorText(<<AgentOf(agents_meta, SupervisorName).model>>),
                    c1, Locals("loaded", agents_meta, <<>>, <<>>))
        ELSE SelectFlow(task, agents_meta, c1, env)

\* run_pipeline, mutated: the document branch is entered only for an
\* invoice or a receipt, and a general document with content goes on to the
\* router
run_pipeline_GeneralToRouter(task, table_client, file_bytes, filename, env) ==
    IF Strip(task) = <<>>
    THEN Returned([status |-> "error", message |-> ProvideTaskText],
                  <<>>, NoLocals)
    ELSE IF file_bytes = <<>>
            /\ \E word \in no_file_words : Contains(Lower(task), word)
    THEN Returned([status |-> "success", agent |-> SystemName,
                   output |-> StrVal(NoDocumentText)],
                  <<>>, NoLocals)
    ELSE IF file_bytes # <<>>
            /\ detect_document_type_from_prompt(task) # "general"
    THEN DocumentFlow(task, file_bytes, filename, env)
    ELSE RouterFlow(task, table_client, env)

run_pipeline(task, table_client, file_bytes, filename, env) ==
    IF Strip(task) = <<>>
    THEN Returned([status |-> "error", message |-> ProvideTaskText],
                  <<>>, NoLocals)
    ELSE IF file_bytes = <<>>
            /\ \E word \in no_file_words : Contains(Lower(task), word)
    THEN Returned([status |-> "success", agent |-> SystemName,
                   output |-> StrVal(NoDocumentText)],
                  <<>>, NoLocals)
    ELSE IF file_bytes # <<>>
    THEN DocumentFlow(task, file_bytes, filename, env)
    ELSE RouterFlow(task, table_client, env)

(* ------------------------------------------------------------------ *)
(* Inputs                                                              *)
(* ------------------------------------------------------------------ *)
Entity(pk, rk, prompt, model, agent_type) ==
    [PartitionKey |-> pk, RowKey |-> rk, prompt |-> prompt, model |-> model,
     agent_type |-> agent_type]

WriterName == <<"W","r","i","t","e","r">>

SupervisorEntity ==
    Entity("agents", SupervisorName, <<"pick">>, "gpt-4.1-mini", "llm")

WriterEntity ==
    Entity("agents", WriterName, <<"write", "\n", "well">>, "gpt-4.1-mini", "llm")

ExtractorEntity ==
    Entity("agents", <<"E","x","t","r","a","c","t","o","r">>, <<"extract">>, "gpt-4.1-mini",
           "extraction_service")

\* a row without the optional columns
BareEntity == [PartitionKey |-> "agents", RowKey |-> <<" ","B","a","r","e"," ">>]

NoneEntity == Entity("agents", <<"N","O","N","E">>, <<"none">>, "gpt-4.1-mini", "llm")

ForeignEntity == Entity("other", SupervisorName, <<"pick">>, "gpt-4.1-mini", "llm")

BadNameEntity == Entity("agents", <<"M","y"," ","B","o","t">>, <<"bot">>, "gpt-4.1-mini", "llm")

BadModelEntity == Entity("agents", WriterName, <<"write">>, "gpt-x", "llm")

\* the contents the handler store may have when the application starts
InitialTables ==
    { <<SupervisorEntity, WriterEntity>>,
      <<ExtractorEntity, SupervisorEntity, BareEntity, NoneEntity, BadModelEntity>>,
      <<ForeignEntity, BadNameEntity, BadModelEntity>> }

\* raw values of the form field "topic"
Topics ==
    { <<" ">>,
      <<" ","N","o">>,
      <<"Y","e","s"," ">>,
      <<"h","i">>,
      <<"t","i","p">>,
      <<"v","e","n","d","o","r">>,
      <<"T","a","x"," ","t","i","p">> }

Upload(filename, bytes) == [filename |-> filename, bytes |-> bytes]

\* the parts of the form field "file"; a part without filename is what a
\* browser sends when no file was chosen
Uploads ==
    { Upload(<<"a",".","P","D","F">>, <<1>>),
      Upload(<<"e",".","p","d","f">>, <<>>),
      Upload(<<"x",".","e","x","e">>, <<3>>),
      Upload(<<>>, <<>>) }

UploadLists == UNION {[1..n -> Uploads] : n \in 0..MaxFiles}

\* raw replies of the Supervisor model
Replies ==
    { <<" ","W","r","i","t","e","r","\n">>,
      <<"N","O","N","E">>,
      <<"G","h","o","s","t">> }

\* replies of an executing model
Outputs == { StrVal(<<"ok">>), StrVal(<<"fine", " ">>) }

\* the collaborators' behaviours during one run_pipeline call; a reply that
\* comes after the failing call is never produced, so it is not varied
Envs ==
    {env \in [fail : 0..3, reply : Replies, out : Outputs] :
        /\ env.fail \in {1, 2} => env.reply = <<"G","h","o","s","t">>
        /\ env.fail # 0 => env.out = StrVal(<<"ok">>)}

\* inputs of the agents form
AgentNames == { <<>>, <<"M","y"," ","B","o","t">> }

AgentPrompts == { <<>>, <<"bot">> }

AgentModels == { "gpt-x" }

(* ------------------------------------------------------------------ *)
(* State                                                               *)
(* ------------------------------------------------------------------ *)
VARIABLES
    table,            \* the rows of AgentsTable, in list_entities() order
    pc,               \* position of the request in app.index
    topic,            \* index: topic (trimmed form field)
    is_ajax,          \* index: is_ajax_request(request)
    uploaded_files,   \* index: request.files.getlist("file")
    files_data,       \* index: files_data
    all_outputs,      \* index: all_outputs
    result,           \* index: result
    final_result,     \* index: final_result
    response,         \* what index returns to the client
    runs,             \* the run_pipeline calls of the request, in order
    last_needs_confirmation  \* the previous reply asked for confirmation

vars == <<table, pc, topic, is_ajax, uploaded_files, files_data,
          all_outputs, result, final_result, response, runs,
          last_needs_confirmation>>

request_vars == <<topic, is_ajax, uploaded_files, files_data, all_outputs,
                  result, final_result, response, runs>>

Json(code, body) == [kind |-> "json", code |-> code, body |-> body]

\* flash(msg) and redirect(url_for(...))
Redirect(msg) == [kind |-> "redirect", code |-> 302, flash |-> msg]

\* render_template("index.html", topic=topic, result=result)
Render(t, r) == [kind |-> "render", code |-> 200, topic |-> t, result |-> r]

Init ==
    /\ table \in InitialTables
    /\ pc = "idle"
    /\ topic = <<>>
    /\ is_ajax = FALSE
    /\ uploaded_files = <<>>
    /\ files_data = <<>>
    /\ all_outputs = <<>>
    /\ result = NoneVal
    /\ final_result = NoneVal
    /\ response = NoneVal
    /\ runs = <<>>
    /\ last_needs_confirmation = FALSE

(* ------------------------------------------------------------------ *)
(* app.index, POST: lines 59-92                                        *)
(* ------------------------------------------------------------------ *)
\* the uploads the validation loop looks at: those with a filename
Named(files) == SelectSeq(files, LAMBDA f : f.filename # <<>>)

\* an error answer: JSON with the code for an AJAX request, else flash and
\* redirect
Reject(msg, ajax) ==
    IF ajax THEN Json(400, [status |-> "error", message |-> msg])
    ELSE Redirect(msg)

\* line 64, mutated: the comparison without lower()
IsEndChat_CaseSensitive(t) == t = <<"n", "o">>

\* line 64: topic.lower() == "no"
IsEndChat(t) == Lower(t) = <<"n", "o">>

\* lines 80-87, mutated: only the first upload is validated
HasUnsupported_FirstOnly(files) ==
    /\ Named(files) # <<>>
    /\ ~is_allowed_file(Named(files)[1].filename)

\* lines 80-87: the validation loop returns at an upload of unsupported type
HasUnsupported(files) ==
    \E i \in 1..Len(Named(files)) : ~is_allowed_file(Named(files)[i].filename)

IndexPost(raw_topic, files, ajax) ==
    /\ pc = "idle"
    /\ topic' = Strip(raw_topic)
    /\ uploaded_files' = files
    /\ is_ajax' = ajax
    /\ UNCHANGED <<table, all_outputs, result, final_result, runs,
                   last_needs_confirmation>>
    /\ IF IsEndChat(Strip(raw_topic))
       THEN /\ response' = Json(200, [status |-> "success",
                                      agent  |-> SystemName,
                                      output |-> StrVal(EndedChatText)])
            /\ pc' = "done"
            /\ UNCHANGED files_data
       ELSE IF Strip(raw_topic) = <<>>
       THEN /\ response' = Reject(EnterTaskText, ajax)
            /\ pc' = "done"
            /\ UNCHANGED files_data
       ELSE IF HasUnsupported(files)
       THEN /\ response' = Reject(UnsupportedText, ajax)
            /\ pc' = "done"
            /\ UNCHANGED files_data
       ELSE /\ files_data' = Named(files)
            /\ pc' = "loop"
            /\ UNCHANGED response

(* ------------------------------------------------------------------ *)
(* app.index, POST: one iteration of the loop of lines 97-109, and the *)
(* handler of lines 141-145 when run_pipeline raises                   *)
(* ------------------------------------------------------------------ *)
RunRecord(file, o) ==
    [filename |-> file.filename, bytes |-> file.bytes, raised |-> o.raised,
     exc |-> o.exc, result |-> o.result, calls |-> o.calls, loc |-> o.loc]

InternalError(exc) ==
    [status |-> "error", message |-> <<"Internal error:", " ">> \o exc]

\* what run_pipeline may do for one file, over all collaborator behaviours
Outcomes(task, rows, file) ==
    {run_pipeline(task, rows, file.bytes, file.filename, env) : env \in Envs}

ProcessFile ==
    /\ pc = "loop"
    /\ Len(runs) < Len(files_data)
    /\ \E o \in Outcomes(topic, table, files_data[Len(runs) + 1]) :
          LET file == files_data[Len(runs) + 1]
          IN  /\ runs' = Append(runs, RunRecord(file, o))
              /\ IF o.raised
                 THEN /\ pc' = "done"
                      /\ UNCHANGED all_outputs
                      /\ IF is_ajax
                         THEN /\ response' = Json(500, InternalError(o.exc))
                              /\ UNCHANGED result
                         ELSE /\ result' = InternalError(o.exc)
                              /\ response' = Render(topic, InternalError(o.exc))
                 ELSE /\ pc' = "loop"
                      /\ result' = o.result
                      /\ all_outputs' = Append(all_outputs,
                             [filename |-> file.filename,
                              text |-> Get(o.result, "output", StrVal(<<>>)),
                              needs_confirmation |->
                                  Get(o.result, "needs_confirmation", FALSE)])
                      /\ UNCHANGED response
    /\ UNCHANGED <<table, topic, is_ajax, uploaded_files, files_data,
                   final_result, last_needs_confirmation>>

(* ------------------------------------------------------------------ *)
(* app.index, POST: lines 112-151                                      *)
(* ------------------------------------------------------------------ *)
\* f"\n\nIn file {o['filename']}:\n{o['text']}\n"
Section(o) ==
    <<"\n", "\n", "In file", " ">> \o o.filename \o <<":", "\n">>
        \o PyStr(o.text) \o <<"\n">>

Combined(outputs) == Flatten([i \in 1..Len(outputs) |-> Section(outputs[i])])

\* lines 112-134, mutated: the flag is assigned from each file in turn, so
\* the last file decides
FinalResult_LastOnly(outputs) ==
    IF Len(outputs) = 1
    THEN [status |-> "success", agent |-> SystemName,
          output |-> outputs[1].text,
          needs_confirmation |-> outputs[1].needs_confirmation]
    ELSE [status |-> "success", agent |-> SystemName,
          output |-> StrVal(Strip(Combined(outputs))),
          needs_confirmation |->
              Len(outputs) > 0 /\ outputs[Len(outputs)].needs_confirmation]

\* lines 112-134: the single result, or the sections of all files
FinalResult(outputs) ==
    IF Len(outputs) = 1
    THEN [status |-> "success", agent |-> SystemName,
          output |-> outputs[1].text,
          needs_confirmation |-> outputs[1].needs_confirmation]
    ELSE [status |-> "success", agent |-> SystemName,
          output |-> StrVal(Strip(Combined(outputs))),
          needs_confirmation |->
              \E i \in 1..Len(outputs) : outputs[i].needs_confirmation]

Aggregate ==
    /\ pc = "loop"
    /\ Len(runs) = Len(files_data)
    /\ final_result' = FinalResult(all_outputs)
    /\ response' = IF is_ajax THEN Json(200, FinalResult(all_outputs))
                   ELSE Render(topic, result)
    /\ pc' = "done"
    /\ UNCHANGED <<table, topic, is_ajax, uploaded_files, files_data,
                   all_outputs, result, runs, last_needs_confirmation>>

\* the dictionary the client is shown, if any
Shown(resp) ==
    IF resp.kind = "json" THEN resp.body
    ELSE IF resp.kind = "render" THEN resp.result
    ELSE NoneVal

\* the reply leaves; the next request starts from fresh locals
Reply ==
    /\ pc = "done"
    /\ pc' = "idle"
    /\ last_needs_confirmation' = Get(Shown(response), "needs_confirmation", FALSE)
    /\ topic' = <<>>
    /\ is_ajax' = FALSE
    /\ uploaded_files' = <<>>
    /\ files_data' = <<>>
    /\ all_outputs' = <<>>
    /\ result' = NoneVal
    /\ final_result' = NoneVal
    /\ response' = NoneVal
    /\ runs' = <<>>
    /\ UNCHANGED table

(* ------------------------------------------------------------------ *)
(* app.agents_list, POST, with app.save_agent_to_db                    *)
(* ------------------------------------------------------------------ *)
RemoveBlanks(s) == SelectSeq(s, LAMBDA c : c # " ")

\* table_client.upsert_entity
Upsert(rows, entity) ==
    IF \E i \in 1..Len(rows) :
          /\ rows[i].PartitionKey = entity.PartitionKey
          /\ rows[i].RowKey = entity.RowKey
    THEN [i \in 1..Len(rows) |->
            IF /\ rows[i].PartitionKey = entity.PartitionKey
               /\ rows[i].RowKey = entity.RowKey
            THEN entity ELSE rows[i]]
    ELSE Append(rows, entity)

save_agent_to_db(rows, row_key, prompt, model, agent_type) ==
    Upsert(rows, Entity("agents", row_key, prompt, model, agent_type))

\* the request changes the table when the form is complete and the upsert
\* succeeds; otherwise it only flashes a message and redirects
AgentsPost(agent_name, agent_prompt, model) ==
    /\ Strip(agent_name) # <<>>
    /\ Strip(agent_prompt) # <<>>
    /\ table' = save_agent_to_db(table, RemoveBlanks(Strip(agent_name)),
                                 Strip(agent_prompt), model, "llm")
    /\ UNCHANGED <<pc, request_vars, last_needs_confirmation>>

Next ==
    \/ \E raw_topic \in Topics, files \in UploadLists, ajax \in BOOLEAN :
          IndexPost(raw_topic, files, ajax)
    \/ ProcessFile
    \/ Aggregate
    \/ Reply
    \/ \E agent_name \in AgentNames, agent_prompt \in AgentPrompts,
          model \in AgentModels :
          AgentsPost(agent_name, agent_prompt, model)

Spec == Init /\ [][Next]_vars

(* ------------------------------------------------------------------ *)
(* Properties                                                          *)
(* ------------------------------------------------------------------ *)
\* every collaborator call of the request so far
AllCalls == Flatten([i \in 1..Len(runs) |-> runs[i].calls])

\* a request has been received and not yet answered and forgotten
InRequest == pc # "idle"

\* the request passed the checks of lines 64-92
Accepted == InRequest /\ ~IsEndChat(topic) /\ topic # <<>>
            /\ \A i \in 1..Len(uploaded_files) :
                  uploaded_files[i].filename # <<>>
                      => is_allowed_file(uploaded_files[i].filename)

\* C1: a request whose task, trimmed and lower-cased, is "no" is answered at
\* once with the fixed result "You have ended the chat.", whatever files
\* are attached and whatever the handler store holds, and no run_pipeline
\* call and no collaborator call is made for it.
C1_NoEndsChat ==
    (InRequest /\ Lower(topic) = <<"n", "o">>) =>
        /\ pc = "done"
        /\ response = Json(200, [status |-> "success", agent |-> SystemName,
                                 output |-> StrVal(EndedChatText)])
        /\ runs = <<>>
        /\ AllCalls = <<>>

\* C1 witness: "no" in another case, with a supported and an unsupported
\* upload and a store without Supervisor, answered with the fixed result
C1_Witness ==
    /\ pc = "done"
    /\ Lower(topic) = <<"n", "o">> /\ topic # <<"n", "o">>
    /\ \E i, j \in 1..Len(uploaded_files) :
          /\ uploaded_files[i].bytes # <<>>
          /\ is_allowed_file(uploaded_files[i].filename)
          /\ uploaded_files[j].filename # <<>>
          /\ ~is_allowed_file(uploaded_files[j].filename)
    /\ ~HasAgent(load_agents_from_db(table), SupervisorName)
    /\ response.body.output = StrVal(EndedChatText)

\* the handler map the router would load from the store as it is
Registry == load_agents_from_db(table)

\* the registry holds a usable Supervisor
ValidSupervisor(agents_meta) ==
    /\ HasAgent(agents_meta, SupervisorName)
    /\ ModelResolves(AgentOf(agents_meta, SupervisorName).model)

\* the run got as far as looking the Supervisor's reply up
GotReply(run) == run.loc.stage \in {"selected", "executing", "executed"}

\* C2: when the loaded handler map has no handler named Supervisor, the
\* pipeline returns (does not raise) a result with status=error whose
\* message names the missing handler, and the request is answered with
\* status=error, for any accepted task.
C2_MissingSupervisorIsError ==
    /\ \A i \in 1..Len(runs) :
          (/\ runs[i].loc.stage \notin {"document", "listing"}
           /\ ~HasAgent(runs[i].loc.agents_meta, SupervisorName))
          => /\ ~runs[i].raised
             /\ runs[i].result.status = "error"
             /\ Contains(runs[i].result.message, SupervisorName)
    /\ (pc = "done" /\ Accepted /\ ~HasAgent(Registry, SupervisorName))
          => Get(Shown(response), "status", "") = "error"

\* C3: the Supervisor's trimmed reply is validated before anything is
\* executed: for the reply "NONE" the pipeline returns
\* status=no_suitable_handler, for a reply that is no key of the handler
\* map it returns status=error with the raw reply; in neither case is a
\* handler executed or an exception raised.
C3_ReplyValidated ==
    \A i \in 1..Len(runs) :
        GotReply(runs[i]) =>
            LET sel == runs[i].loc.selected_agent
            IN  /\ sel = <<"N", "O", "N", "E">> =>
                      /\ ~runs[i].raised
                      /\ runs[i].result.status = "no_suitable_handler"
                      /\ Len(runs[i].calls) = 2
                /\ (/\ sel # <<"N", "O", "N", "E">>
                    /\ ~HasAgent(runs[i].loc.agents_meta, sel)) =>
                      /\ ~runs[i].raised
                      /\ runs[i].result.status = "error"
                      /\ Get(runs[i].result, "raw", <<>>) = sel
                      /\ Len(runs[i].calls) = 2

\* C4: a request with a non-empty task and no attached file, with a
\* registry holding a valid Supervisor and at least one conversational
\* handler, is answered with status=success and the handler the Supervisor
\* chose, or with status=no_suitable_handler.
C4_NoFileRoutes ==
    (/\ pc = "done" /\ Accepted /\ files_data = <<>>
     /\ ValidSupervisor(Registry)
     /\ \E k \in 1..Len(Registry) :
           /\ Registry[k].name # SupervisorName
           /\ Registry[k].agent_type # "extraction_service"
           /\ ModelResolves(Registry[k].model))
    => LET r == Shown(response)
       IN  \/ Get(r, "status", "") = "no_suitable_handler"
           \/ /\ Get(r, "status", "") = "success"
              /\ \E k \in 1..Len(Registry) :
                    /\ Registry[k].name # SupervisorName
                    /\ Get(r, "handler", Get(r, "agent", <<>>)) = Registry[k].name

\* the task of the request classifies as a general document
GeneralTask == detect_document_type_from_prompt(topic) = "general"

\* the task of the request is the confirmation "yes" or "y"
Confirms == Lower(topic) \in confirm_words

DataCalls(calls) ==
    {k \in 1..Len(calls) : calls[k].op \in {"extract_text", "extract", "generate"}}

\* C5 as stated: for every uploaded file of a request whose task
\* classifies as general, a task other than "yes"/"y" gives
\* needs_confirmation=true with no text-extraction, extraction-service or
\* model call during the request, and the task "yes"/"y" gives text
\* extraction followed by summarization and, when neither call fails,
\* status=success without needs_confirmation.
C5_AsStated ==
    \A i \in 1..Len(runs) :
        GeneralTask =>
            IF Confirms
            THEN /\ Len(runs[i].calls) \in {1, 2}
                 /\ runs[i].calls[1] = Call("extract_text", runs[i].filename)
                 /\ Len(runs[i].calls) = 2 =>
                       runs[i].calls[2] = Call("generate", SummaryAgentName)
                 /\ ~runs[i].raised =>
                       /\ Len(runs[i].calls) = 2
                       /\ runs[i].result.status = "success"
                       /\ ~Get(runs[i].result, "needs_confirmation", FALSE)
            ELSE /\ DataCalls(AllCalls) = {}
                 /\ ~runs[i].raised =>
                       Get(runs[i].result, "needs_confirmation", FALSE)

\* C5 amended: for every uploaded file with non-empty content, in a request
\* that passed validation and whose task classifies as general: a task
\* other than "yes"/"y" returns status=success with needs_confirmation=true
\* and that file's run calls no collaborator; with the task "yes"/"y" the
\* run calls text extraction first and then, unless that failed, the
\* summarizer, and when neither fails it returns status=success from
\* SummaryAgent without needs_confirmation.  A request of such files that
\* completes asks for confirmation exactly when the task is not "yes"/"y".
C5_ConfirmThenSummarize ==
    /\ \A i \in 1..Len(runs) :
          (GeneralTask /\ runs[i].bytes # <<>>) =>
              IF Confirms
              THEN /\ Len(runs[i].calls) \in {1, 2}
                   /\ runs[i].calls[1] = Call("extract_text", runs[i].filename)
                   /\ Len(runs[i].calls) = 2 =>
                         runs[i].calls[2] = Call("generate", SummaryAgentName)
                   /\ ~runs[i].raised =>
                         /\ Len(runs[i].calls) = 2
                         /\ runs[i].result.status = "success"
                         /\ runs[i].result.agent = SummaryAgentName
                         /\ ~Get(runs[i].result, "needs_confirmation", FALSE)
              ELSE /\ ~runs[i].raised
                   /\ runs[i].result.status = "success"
                   /\ Get(runs[i].result, "needs_confirmation", FALSE)
                   /\ runs[i].calls = <<>>
    /\ (/\ final_result # NoneVal /\ GeneralTask /\ files_data # <<>>
        /\ \A i \in 1..Len(files_data) : files_data[i].bytes # <<>>)
          => /\ final_result.status = "success"
             /\ final_result.needs_confirmation = ~Confirms

\* C5 witness: the previous answer asked for confirmation, and this request
\* says "yes" with a file: its text was extracted and summarized, and the
\* answer is a success that asks for nothing
C5_Witness ==
    /\ last_needs_confirmation
    /\ pc = "done" /\ Confirms /\ Len(runs) = 1
    /\ runs[1].bytes # <<>>
    /\ runs[1].calls = <<Call("extract_text", runs[1].filename),
                         Call("generate", SummaryAgentName)>>
    /\ is_ajax
    /\ response.body.status = "success"
    /\ ~response.body.needs_confirmation

\* the Supervisor was asked, so the catalog was built
CatalogBuilt(run) ==
    run.loc.stage \in {"asking", "selected", "executing", "executed"}

\* C6: the catalog built for the Supervisor lists no handler of kind
\* extraction_service when no file is attached (no file bytes), and lists
\* every non-Supervisor extraction_service handler when a file is attached.
C6_CatalogHidesExtraction ==
    \A i \in 1..Len(runs) :
        CatalogBuilt(runs[i]) =>
            \A k \in 1..Len(runs[i].loc.agents_meta) :
                LET m == runs[i].loc.agents_meta[k]
                IN  (m.agent_type = "extraction_service" /\ m.name # SupervisorName)
                    => (CatalogLine(m) \in Range(runs[i].loc.agent_catalog)
                            <=> runs[i].bytes # <<>>)

\* str.rstrip()
RStrip(s) ==
    LET keep == {i \in 1..Len(s) : s[i] \notin Whitespace}
    IN  IF keep = {} THEN <<>>
        ELSE SubSeq(s, 1, CHOOSE i \in keep : \A j \in keep : j <= i)

\* the header naming a file, followed by a text
Headed(filename, text) ==
    <<"In file", " ">> \o filename \o <<":", "\n">> \o text

\* the parts occur in out from position start on, in order, without overlap
RECURSIVE OccurInOrder(_, _, _)
OccurInOrder(out, start, parts) ==
    IF parts = <<>> THEN TRUE
    ELSE \E q \in start..(Len(out) - Len(Head(parts)) + 1) :
            /\ SubSeq(out, q, q + Len(Head(parts)) - 1) = Head(parts)
            /\ OccurInOrder(out, q + Len(Head(parts)), Tail(parts))

\* the request completed with more than one per-file result
Aggregated == final_result # NoneVal /\ Len(all_outputs) > 1

AnyAskedConfirmation ==
    \E i \in 1..Len(runs) : Get(runs[i].result, "needs_confirmation", FALSE)

\* C7 as stated: for N > 1 files the aggregated result has
\* needs_confirmation exactly when some per-file result asked for
\* confirmation, and its output contains, in upload order, a header naming
\* each file followed by that file's output.
C7_AsStated ==
    Aggregated =>
        /\ final_result.needs_confirmation = AnyAskedConfirmation
        /\ OccurInOrder(final_result.output.s, 1,
               [i \in 1..Len(runs) |->
                   Headed(runs[i].filename, PyStr(runs[i].result.output))])

\* C7 amended: for N > 1 files the aggregated result has needs_confirmation
\* exactly when some per-file result asked for confirmation, and its output
\* consists, in upload order, of a header naming each file followed by that
\* file's output, except that whitespace at the end of the last file's
\* output is trimmed; an AJAX request is answered with this result.
C7_AggregateSections ==
    Aggregated =>
        LET n     == Len(runs)
            parts == [i \in 1..n |->
                        Headed(runs[i].filename,
                               IF i = n THEN RStrip(PyStr(runs[i].result.output))
                               ELSE PyStr(runs[i].result.output))]
            out   == final_result.output.s
        IN  /\ final_result.status = "success"
            /\ final_result.needs_confirmation = AnyAskedConfirmation
            /\ OccurInOrder(out, 1, parts)
            /\ SubSeq(out, Len(out) - Len(parts[n]) + 1, Len(out)) = parts[n]
            /\ SubSeq(out, 1, Len(parts[1])) = parts[1]
            /\ (pc = "done" /\ is_ajax) => response = Json(200, final_result)

\* C7 witness: two files, the first answered without a question and the
\* second asking for confirmation, aggregated into one result that asks
C7_Witness ==
    /\ Aggregated /\ Len(runs) = 2
    /\ runs[1].filename # runs[2].filename
    /\ ~Get(runs[1].result, "needs_confirmation", FALSE)
    /\ Get(runs[2].result, "needs_confirmation", FALSE)
    /\ final_result.needs_confirmation

\* the task contains a word of the invoice vocabulary
InvoiceTask == \E w \in invoice_words : Contains(Lower(topic), w)

\* the task contains a word of the receipt vocabulary
ReceiptTask == \E w \in receipt_words : Contains(Lower(topic), w)

\* C8: when the task of a request with files classifies as invoice (also
\* when it matches the receipt vocabulary too), no file's run returns
\* needs_confirmation=true or the confirmation prompt, none calls text
\* extraction or the summarizer, a file with content goes to the extraction
\* service with the invoice schema, and the request's result never asks for
\* confirmation.
C8_InvoiceSkipsConfirmation ==
    InvoiceTask =>
        /\ \A i \in 1..Len(runs) :
              /\ ~runs[i].raised =>
                    /\ ~Get(runs[i].result, "needs_confirmation", FALSE)
                    /\ runs[i].result.output # StrVal(ConfirmPromptText)
              /\ \A k \in 1..Len(runs[i].calls) :
                    /\ runs[i].calls[k].op # "extract_text"
                    /\ runs[i].calls[k] # Call("generate", SummaryAgentName)
              /\ runs[i].bytes # <<>> =>
                    runs[i].calls[1] = Call("extract", <<"prebuilt-invoice">>)
        /\ final_result # NoneVal => ~final_result.needs_confirmation
        /\ pc = "done" => ~Get(Shown(response), "needs_confirmation", FALSE)

\* C8 witness: a task matching both vocabularies with a file that has
\* content: answered by DocQA from the invoice extraction
C8_Witness ==
    /\ InvoiceTask /\ ReceiptTask
    /\ pc = "done" /\ Len(runs) = 1
    /\ runs[1].bytes # <<>>
    /\ ~runs[1].raised
    /\ runs[1].result.agent = DocQAName
    /\ runs[1].calls = <<Call("extract", <<"prebuilt-invoice">>),
                         Call("generate", DocQAName)>>

\* C9: in a request with several files a failure while processing one file
\* does not abort the others: every uploaded file's pipeline run is
\* executed, an aggregate is produced, and it carries the failed file's
\* error text under that file's header.
C9_FailureIsolated ==
    (pc = "done" /\ Accepted /\ Len(files_data) > 1) =>
        /\ Len(runs) = Len(files_data)
        /\ final_result # NoneVal
        /\ \A i \in 1..Len(runs) :
              runs[i].raised =>
                  Contains(final_result.output.s,
                           Headed(runs[i].filename, runs[i].exc))

\* an upload with a filename of a type that is not allowed
UnsupportedUpload ==
    \E i \in 1..Len(uploaded_files) :
        /\ uploaded_files[i].filename # <<>>
        /\ ~is_allowed_file(uploaded_files[i].filename)

\* the answer is an error with the message msg
RejectedWith(msg) ==
    \/ response = Json(400, [status |-> "error", message |-> msg])
    \/ response = Redirect(msg)

\* C10 as stated: a request with an empty task or with an upload of
\* unsupported type is rejected with an error, and no run_pipeline call and
\* no collaborator call is made for it.
C10_AsStated ==
    (InRequest /\ (topic = <<>> \/ UnsupportedUpload)) =>
        /\ pc = "done"
        /\ RejectedWith(EnterTaskText) \/ RejectedWith(UnsupportedText)
        /\ runs = <<>>
        /\ AllCalls = <<>>

\* C10 amended: a request with an empty task or with an upload of
\* unsupported type is answered at once, without any run_pipeline call or
\* collaborator call, before or after: with the error "Please enter a
\* task." for an empty task, else with the error "Unsupported file type.",
\* unless the task is "no", which is answered with the end of the chat.
C10_RejectedBeforeCalls ==
    (InRequest /\ (topic = <<>> \/ UnsupportedUpload)) =>
        /\ pc = "done"
        /\ runs = <<>>
        /\ AllCalls = <<>>
        /\ all_outputs = <<>> /\ final_result = NoneVal
        /\ IF Lower(topic) = <<"n", "o">>
           THEN response.body.output = StrVal(EndedChatText)
           ELSE IF topic = <<>> THEN RejectedWith(EnterTaskText)
           ELSE RejectedWith(UnsupportedText)

\* C10 witness: an upload of unsupported type after a supported one with
\* content, rejected
C10_Witness ==
    /\ pc = "done"
    /\ topic # <<>>
    /\ Len(uploaded_files) = 2
    /\ is_allowed_file(uploaded_files[1].filename)
    /\ uploaded_files[1].bytes # <<>>
    /\ ~is_allowed_file(uploaded_files[2].filename)
    /\ response = Json(400, [status |-> "error", message |-> UnsupportedText])
    /\ runs = <<>>

\* C11: the handler map that load_agents_from_db returned to a run_pipeline
\* call never contains a handler whose declared model key is absent from
\* AVAILABLE_MODELS, so no selected handler and no Supervisor fails on the
\* lookup of its model key.
C11_LoaderSkipsUnknownModels ==
    \A i \in 1..Len(runs) :
        /\ \A k \in 1..Len(runs[i].loc.agents_meta) :
              ModelResolves(runs[i].loc.agents_meta[k].model)
        /\ runs[i].raised =>
              \A key \in AgentModels \ DOMAIN AVAILABLE_MODELS :
                  runs[i].exc # KeyErrorText(<<key>>)

\* the agents the document flow of run_pipeline names in its results
DocumentAgents == {SystemName, SummaryAgentName, DocQAName}

\* the run went past the document flow, into the router
InRouter(run) == run.loc.stage # "document"

\* C12: every run_pipeline call made with a non-empty task and non-empty
\* file bytes returns or raises inside the document flow: it never reads
\* the handler store, never calls the Supervisor and never executes a
\* handler of the registry, its only collaborator calls are the
\* extraction service or text extraction followed by DocQA or
\* SummaryAgent, and a result it returns names System, SummaryAgent or
\* DocQA as its agent; a run that entered the router had no file bytes.
C12_FileBytesStayInDocumentFlow ==
    \A i \in 1..Len(runs) :
        /\ (topic # <<>> /\ runs[i].bytes # <<>>) =>
              /\ ~InRouter(runs[i])
              /\ runs[i].loc = NoLocals
              /\ \A k \in 1..Len(runs[i].calls) :
                    /\ runs[i].calls[k].op # "list_handlers"
                    /\ runs[i].calls[k].op = "generate" =>
                          /\ k = 2
                          /\ runs[i].calls[k].who
                                \in {SummaryAgentName, DocQAName}
              /\ ~runs[i].raised =>
                    /\ runs[i].result.status = "success"
                    /\ runs[i].result.agent \in DocumentAgents
        /\ InRouter(runs[i]) => runs[i].bytes = <<>>

\* C12 witness: one request with two files and a general task; the file
\* without content went through the router and a registry handler was
\* executed, the file with content was answered by the document flow
C12_Witness ==
    /\ pc = "loop"
    /\ Len(runs) = 2
    /\ runs[1].bytes = <<>>
    /\ runs[1].loc.stage = "executed"
    /\ runs[1].calls[1].op = "list_handlers"
    /\ runs[2].bytes # <<>>
    /\ runs[2].loc = NoLocals
    /\ ~runs[2].raised
    /\ runs[2].result.agent = SystemName
    /\ runs[2].calls = <<>>

====
